---- MODULE Spec2Model ----
(***************************************************************************)
(* Model of django/apps/pageparser/helpers.py: the sanitize-and-rewrite    *)
(* pipeline (absolutize_url, reinforce_text, schemeful_domain,             *)
(* sterilize_page, process_page).                                          *)
(*                                                                         *)
(* A Python str is a sequence of one-character strings; None is the model  *)
(* value None.  An lxml element is a record in a heap of nodes indexed by  *)
(* identity, so that an element removed from the tree still exists.        *)
(***************************************************************************)
EXTENDS Integers, Sequences, FiniteSets, TLC

VARIABLES
    rin, rtext, rwords, rpc, rresults,      \* reinforce_text: argument, local text, set being iterated, position, returned values
    uaddress, upath, uresult, upc,          \* absolutize_url: arguments, returned value, position
    sterile, target_url,                    \* process_page: the parsed argument, the target URL
    heap,                                   \* the lxml elements, by identity (the root is element 1)
    alist, ai,                              \* the list root.xpath(".//a") and the loop's index in it
    fixed,                                  \* the elements as the anchor loop left them
    order, ei,                              \* the elements root.iter() yields and the loop's index
    output, pc,                             \* the returned string; the position in process_page
    spage, sheap, sresult, spc              \* sterilize_page: the page source as parsed, the tree being cleaned, the returned string, position

rvars == <<rin, rtext, rwords, rpc, rresults>>
uvars == <<uaddress, upath, uresult, upc>>
pvars == <<sterile, target_url, heap, alist, ai, fixed, order, ei, output, pc>>
svars == <<spage, sheap, sresult, spc>>
vars == <<rvars, uvars, pvars, svars>>

\* None: a value no sequence of characters equals
None == <<"None">>

(***************************************************************************)
(* Characters                                                              *)
(***************************************************************************)
Letters == {"a", "b", "c", "d", "e", "f", "g", "h", "i", "j", "k", "l", "m",
            "n", "o", "p", "q", "r", "s", "t", "u", "v", "w", "x", "y", "z"}
Digits == {"0", "1"}
Whitespace == {" ", "\n", "\r", "\t"}

\* str.isalpha() of one character
isalpha(c) == c \in Letters
\* the regular expression class \w of one character
isword(c) == c \in Letters \cup Digits \cup {"_"}
\* what str.split() with no argument splits on
isspace(c) == c \in Whitespace

S_strong == <<"s", "t", "r", "o", "n", "g">>
S_hello == <<"h", "e", "l", "l", "o">>
S_lazy == <<"l", "a", "z", "y">>
S_open == <<"<">> \o S_strong \o <<">">>
S_close == <<"<", "/">> \o S_strong \o <<">">>

(***************************************************************************)
(* Sequence helpers (Python str operations)                                *)
(***************************************************************************)
startswith(s, c) == Len(s) > 0 /\ s[1] = c
endswith(s, c) == Len(s) > 0 /\ s[Len(s)] = c

\* s[i:j] with 1-based inclusive bounds
Slice(s, i, j) == IF j < i THEN <<>> ELSE SubSeq(s, i, j)

RECURSIVE Concat(_)
Concat(ss) == IF ss = <<>> THEN <<>> ELSE Head(ss) \o Concat(Tail(ss))

\* the smallest element of a non-empty set of integers
Min(S) == CHOOSE x \in S : \A y \in S : x <= y

\* the k-th smallest element of a set of integers
Kth(S, k) == CHOOSE x \in S : Cardinality({y \in S : y < x}) = k - 1

\* str.split(): the maximal runs of non-whitespace characters, in order
split(s) ==
    LET starts == {i \in 1..Len(s) : ~isspace(s[i]) /\ (i = 1 \/ isspace(s[i - 1]))}
        stop(i) == Min({j \in i..Len(s) : j = Len(s) \/ isspace(s[j + 1])})
    IN [k \in 1..Cardinality(starts) |-> SubSeq(s, Kth(starts, k), stop(Kth(starts, k)))]

\* ' '.join(parts)
RECURSIVE join(_)
join(parts) ==
    IF parts = <<>> THEN <<>>
    ELSE IF Len(parts) = 1 THEN parts[1]
    ELSE parts[1] \o <<" ">> \o join(Tail(parts))

\* s.strip() is non-empty
nonblank(s) == s # None /\ \E i \in 1..Len(s) : ~isspace(s[i])

(***************************************************************************)
(* absolutize_url                                                          *)
(***************************************************************************)
\* absolutize_url with the second branch returning address + path
absolutize_url_keeps_slash(address, path) ==
    IF endswith(address, "/") # startswith(path, "/")
    THEN address \o path
    ELSE IF endswith(address, "/") /\ startswith(path, "/")
    THEN address \o path
    ELSE None

absolutize_url(address, path) ==
    IF endswith(address, "/") # startswith(path, "/")
    THEN address \o path
    ELSE IF endswith(address, "/") /\ startswith(path, "/")
    THEN address \o Tail(path)
    ELSE None

(***************************************************************************)
(* reinforce_text                                                          *)
(***************************************************************************)
MinLen == 4

\* ''.join((char if char.isalpha() else ' ') for char in text)
blanked(text) == [i \in 1..Len(text) |-> IF isalpha(text[i]) THEN text[i] ELSE " "]

\* set(... .split()): the distinct alphabetic tokens
tokens(text) == {split(blanked(text))[i] : i \in 1..Len(split(blanked(text)))}

\* \b at the gap before position k (1 <= k <= Len(text) + 1)
boundary(text, k) ==
    LET before == k > 1 /\ isword(text[k - 1])
        after == k <= Len(text) /\ isword(text[k])
    IN before # after

\* \bword\b matches at position i
matches(text, word, i) ==
    /\ i + Len(word) - 1 <= Len(text)
    /\ SubSeq(text, i, i + Len(word) - 1) = word
    /\ boundary(text, i)
    /\ boundary(text, i + Len(word))

\* re.sub(fr'\b{word}\b', f'<strong>{word}</strong>', text): the leftmost
\* non-overlapping matches in the text as it was passed in, each replaced
RECURSIVE SubFrom(_, _, _)
SubFrom(text, word, i) ==
    LET found == {m \in i..Len(text) : matches(text, word, m)}
    IN IF found = {} THEN Slice(text, i, Len(text))
       ELSE LET m == Min(found)
            IN Slice(text, i, m - 1) \o S_open \o word \o S_close
                 \o SubFrom(text, word, m + Len(word))
re_sub(word, text) == SubFrom(text, word, 1)

\* the body of the for loop, for one word of the set
loop_body(text, word) == IF Len(word) > MinLen THEN re_sub(word, text) ELSE text

\* ' '.join(text.split()) + ' '
normalize(text) == join(split(text)) \o <<" ">>

\* Every value reinforce_text(text) can return: a set is iterated in an
\* order the language does not fix (string hashing is randomized per
\* process), so each order of the remaining words is possible.
RECURSIVE loop_results(_, _)
loop_results(text, words) ==
    IF words = {} THEN {normalize(text)}
    ELSE UNION {loop_results(loop_body(text, w), words \ {w}) : w \in words}
reinforce_text(text) == loop_results(text, tokens(text))

(***************************************************************************)
(* schemeful_domain and the URL validator                                  *)
(***************************************************************************)
S_sep == <<":", "/", "/">>
S_http == <<"h", "t", "t", "p">>
S_https == <<"h", "t", "t", "p", "s">>
S_ftp == <<"f", "t", "p">>
S_ftps == <<"f", "t", "p", "s">>
S_localhost == <<"l", "o", "c", "a", "l", "h", "o", "s", "t">>

\* the first position >= from where sub occurs in s, or 0
find(s, sub, from) ==
    LET hits == {i \in from..(Len(s) - Len(sub) + 1) : SubSeq(s, i, i + Len(sub) - 1) = sub}
    IN IF hits = {} THEN 0 ELSE Min(hits)

\* the first position >= from of a character of the set cs in s, or Len(s) + 1
findany(s, cs, from) ==
    LET hits == {i \in from..Len(s) : s[i] \in cs}
    IN IF hits = {} THEN Len(s) + 1 ELSE Min(hits)

\* s.split(c) for a one-character separator: every field, empty ones included
fields(s, c) ==
    LET seps == {i \in 1..Len(s) : s[i] = c}
        lo(k) == IF k = 1 THEN 1 ELSE Kth(seps, k - 1) + 1
        hi(k) == IF k = Cardinality(seps) + 1 THEN Len(s) ELSE Kth(seps, k) - 1
    IN [k \in 1..(Cardinality(seps) + 1) |-> Slice(s, lo(k), hi(k))]

\* urlparse(url).scheme and urlparse(url).netloc
urlparse(url) ==
    LET colon == find(url, <<":">>, 1)
        head == Slice(url, 1, colon - 1)
        isscheme == /\ colon > 1
                    /\ isalpha(head[1])
                    /\ \A i \in 1..Len(head) : head[i] \in Letters \cup Digits \cup {"+", "-", "."}
        rest == IF isscheme THEN Slice(url, colon + 1, Len(url)) ELSE url
        hasnetloc == Len(rest) >= 2 /\ SubSeq(rest, 1, 2) = <<"/", "/">>
        stop == findany(rest, {"/", "?", "#"}, 3)
    IN [scheme |-> IF isscheme THEN head ELSE <<>>,
        netloc |-> IF hasnetloc THEN Slice(rest, 3, stop - 1) ELSE <<>>]

\* f'{parsed_uri.scheme}://{parsed_uri.netloc}/'
schemeful_domain(url) == urlparse(url).scheme \o S_sep \o urlparse(url).netloc \o <<"/">>

\* The schemes URLValidator() accepts when none are given, as process_page
\* constructs it; the form's field passes schemes=['http', 'https'].
DefaultSchemes == {S_http, S_https, S_ftp, S_ftps}
FormSchemes == {S_http, S_https}

\* the validator's host pattern: a dotted name whose last label is a
\* top-level domain of two or more letters, or localhost, or a dotted quad
\* (no user, password or port part occurs in the modelled URLs)
hostok(host) ==
    LET labels == fields(host, ".")
        n == Len(labels)
        plain(l) == /\ Len(l) > 0
                    /\ \A i \in 1..Len(l) : l[i] \in Letters \cup Digits \cup {"-"}
                    /\ l[1] # "-" /\ l[Len(l)] # "-"
        tld(l) == Len(l) >= 2 /\ \A i \in 1..Len(l) : l[i] \in Letters
        quad == n = 4 /\ \A k \in 1..n : Len(labels[k]) > 0 /\ \A i \in 1..Len(labels[k]) : labels[k][i] \in Digits
    IN \/ host = S_localhost
       \/ quad
       \/ n >= 2 /\ (\A k \in 1..n : plain(labels[k])) /\ tld(labels[n])

\* URLValidator(schemes)(value) does not raise ValidationError
validates(schemes, value) ==
    LET at == find(value, S_sep, 1)
        scheme == IF at = 0 THEN value ELSE Slice(value, 1, at - 1)
        after == Slice(value, at + 3, Len(value))
        stop == findany(after, {"/", "?", "#"}, 1)
    IN /\ scheme \in schemes
       /\ at > 0
       /\ hostok(Slice(after, 1, stop - 1))
       /\ \A i \in 1..Len(after) : ~isspace(after[i])
URLValidator(value) == validates(DefaultSchemes, value)

(***************************************************************************)
(* The element tree: heap[n] is the element n, with its tag, its href      *)
(* attribute (None when it has none), the names of its other attributes,   *)
(* its text and tail (None or a str), its children in order and its parent *)
(* (0 when it has none).                                                   *)
(***************************************************************************)
Root == 1

\* element.iter(): the element and its descendants in document order
RECURSIVE iter(_, _)
iter(h, n) == <<n>> \o Concat([k \in 1..Len(h[n].kids) |-> iter(h, h[n].kids[k])])

\* root.xpath(".//a"): the descendants of the root that are anchors
xpath_a(h) == SelectSeq(Tail(iter(h, Root)), LAMBDA n : h[n].tag = "a")

\* s without the element x
without(s, x) == SelectSeq(s, LAMBDA y : y # x)

\* em = etree.Element('em'); em.text = a_tag.text; a_tag.text = None;
\* a_tag.insert(0, em)
wrap_in_em(h, a) ==
    LET em == Len(h) + 1
    IN Append([h EXCEPT ![a].text = None, ![a].kids = <<em>> \o @],
              [tag |-> "em", href |-> None, others |-> <<>>, text |-> h[a].text,
               tail |-> None, kids |-> <<>>, parent |-> a])

\* a_tag.getparent().remove(a_tag): lxml unlinks the element together with
\* its tail, which stays on the removed element
remove(h, a) ==
    [h EXCEPT ![h[a].parent].kids = without(@, a), ![a].parent = 0]

\* what the try/except around the validator leaves in the href of an anchor
\* that has one
fixed_href(target, href) ==
    IF URLValidator(href) THEN href
    ELSE absolutize_url(schemeful_domain(target), href)

\* the emphasis loop's body without its second if: tails are left alone
emphasize_text_only(h, e) ==
    LET texts == IF nonblank(h[e].text) THEN reinforce_text(h[e].text) ELSE {h[e].text}
    IN {[h EXCEPT ![e].text = t] : t \in texts}

\* the elements after one element of root.iter() was handled: each of its
\* two slots that is not blank is replaced by reinforce_text of it
emphasize(h, e) ==
    LET texts == IF nonblank(h[e].text) THEN reinforce_text(h[e].text) ELSE {h[e].text}
        tails == IF nonblank(h[e].tail) THEN reinforce_text(h[e].tail) ELSE {h[e].tail}
    IN {[h EXCEPT ![e].text = t, ![e].tail = tl] : t \in texts, tl \in tails}

(***************************************************************************)
(* sterilize_page: the Cleaner process_page's caller runs first            *)
(***************************************************************************)
\* (x or '') + y
plus(x, y) == IF x = None THEN y ELSE x \o y

\* x.replace('\n', ' ').replace('\r', ' ').replace('\t', ' ')
replaced(x) ==
    IF x = None THEN None
    ELSE [i \in 1..Len(x) |-> IF x[i] \in {"\n", "\r", "\t"} THEN " " ELSE x[i]]

\* element.getprevious(): the sibling before n, or 0
getprevious(h, n) ==
    LET sibs == h[h[n].parent].kids
        at == CHOOSE k \in 1..Len(sibs) : sibs[k] = n
    IN IF at = 1 THEN 0 ELSE sibs[at - 1]

\* h with the string s put after what precedes element n: on the tail of
\* the sibling before it, or on the text of its parent
give_before(h, n, s) ==
    LET previous == getprevious(h, n)
    IN IF previous = 0
       THEN [h EXCEPT ![h[n].parent].text = plus(@, s)]
       ELSE [h EXCEPT ![previous].tail = plus(@, s)]

\* HtmlElement.drop_tree(): the element goes with its children and text,
\* its tail is joined to what precedes it
drop_tree(h, n) ==
    LET kept == IF h[n].tail # None THEN give_before(h, n, h[n].tail) ELSE h
    IN [kept EXCEPT ![h[n].parent].kids = without(@, n), ![n].parent = 0]

\* s with the element x replaced by the elements of r
splice(s, x, r) ==
    LET at == CHOOSE k \in 1..Len(s) : s[k] = x
    IN SubSeq(s, 1, at - 1) \o r \o SubSeq(s, at + 1, Len(s))

\* HtmlElement.drop_tag(): the element goes, its text, children and tail
\* are merged into its parent
drop_tag(h, n) ==
    LET parent == h[n].parent
        h1 == IF h[n].text # None THEN give_before(h, n, h[n].text) ELSE h
        h2 == IF h[n].tail = None THEN h1
              ELSE IF Len(h[n].kids) > 0
                   THEN [h1 EXCEPT ![h[n].kids[Len(h[n].kids)]].tail = plus(@, h[n].tail)]
                   ELSE give_before(h1, n, h[n].tail)
    IN [i \in 1..Len(h) |->
          IF i = parent THEN [h2[i] EXCEPT !.kids = splice(@, n, h[n].kids)]
          ELSE IF i = n THEN [h2[i] EXCEPT !.parent = 0, !.kids = <<>>]
          ELSE IF h[i].parent = n THEN [h2[i] EXCEPT !.parent = parent]
          ELSE h2[i]]

\* The tags of the modelled pages that this Cleaner kills with their
\* content (scripts and forms are on unless switched off, style=True is
\* passed: script, style, and the form controls, of which textarea stands
\* here), those it drops keeping their content before allow_tags is looked
\* at (form), and allow_tags itself.
KillTags == {"script", "style", "textarea"}
RemoveTags == {"form"}
AllowTags == {"a"}

\* the elements of the sequence ns dropped one after the other
RECURSIVE drop_all(_, _, _)
drop_all(h, ns, tree) ==
    IF ns = <<>> THEN h
    ELSE drop_all(IF tree THEN drop_tree(h, Head(ns)) ELSE drop_tag(h, Head(ns)),
                  Tail(ns), tree)

reversed(s) == [k \in 1..Len(s) |-> s[Len(s) + 1 - k]]

\* the root cannot be dropped: it is made a div without attributes
as_div(h) == [h EXCEPT ![Root].tag = "div", ![Root].href = None, ![Root].others = <<>>]

\* Cleaner(style=True, allow_tags=['a'], remove_unknown_tags=False,
\*         safe_attrs_only=True, safe_attrs=['href']) applied to the tree
clean_html(h) ==
    LET safe == [i \in 1..Len(h) |-> [h[i] EXCEPT !.others = <<>>]]
        kill == SelectSeq(iter(safe, Root), LAMBDA n : safe[n].tag \in KillTags)
        rem == SelectSeq(iter(safe, Root), LAMBDA n : safe[n].tag \in RemoveTags)
        rootrem == rem # <<>> /\ rem[1] = Root
        h1 == IF rootrem THEN as_div(safe) ELSE safe
        h2 == drop_all(h1, reversed(kill), TRUE)
        h3 == drop_all(h2, IF rootrem THEN Tail(rem) ELSE rem, FALSE)
        bad == SelectSeq(iter(h3, Root), LAMBDA n : h3[n].tag \notin AllowTags)
        rootbad == bad # <<>> /\ bad[1] = Root
        h4 == IF rootbad THEN as_div(h3) ELSE h3
    IN drop_all(h4, IF rootbad THEN Tail(bad) ELSE bad, FALSE)

(***************************************************************************)
(* Serialization and unescape                                              *)
(***************************************************************************)
\* the characters of a tag or attribute name
chars(name) ==
    CASE name = "div" -> <<"d", "i", "v">>
      [] name = "a" -> <<"a">>
      [] name = "em" -> <<"e", "m">>
      [] name = "form" -> <<"f", "o", "r", "m">>
      [] name = "script" -> <<"s", "c", "r", "i", "p", "t">>
      [] name = "style" -> <<"s", "t", "y", "l", "e">>
      [] name = "textarea" -> <<"t", "e", "x", "t", "a", "r", "e", "a">>
      [] name = "onclick" -> <<"o", "n", "c", "l", "i", "c", "k">>
      [] name = "class" -> <<"c", "l", "a", "s", "s">>

\* the serializer's escaping of text (and, with the quote, of attributes)
escape_char(c, inattr) ==
    CASE c = "&" -> <<"&", "a", "m", "p", ";">>
      [] c = "<" -> <<"&", "l", "t", ";">>
      [] c = ">" -> <<"&", "g", "t", ";">>
      [] c = "\"" /\ inattr -> <<"&", "q", "u", "o", "t", ";">>
      [] OTHER -> <<c>>
escape(s, inattr) ==
    IF s = None THEN <<>> ELSE Concat([i \in 1..Len(s) |-> escape_char(s[i], inattr)])

\* etree.tostring(element, method='html'), decoded
RECURSIVE tostring(_, _)
tostring(h, n) ==
    LET href == IF h[n].href = None THEN <<>>
                ELSE <<" ", "h", "r", "e", "f", "=", "\"">> \o escape(h[n].href, TRUE) \o <<"\"">>
        others == Concat([k \in 1..Len(h[n].others) |->
                            <<" ">> \o chars(h[n].others[k]) \o <<"=", "\"", "x", "\"">>])
    IN <<"<">> \o chars(h[n].tag) \o href \o others \o <<">">>
         \o escape(h[n].text, FALSE)
         \o Concat([k \in 1..Len(h[n].kids) |-> tostring(h, h[n].kids[k])])
         \o <<"<", "/">> \o chars(h[n].tag) \o <<">">>
         \o escape(h[n].tail, FALSE)

\* the character references the serializer produces, with what
\* html.unescape puts in their place
Entities == {<<(<<"&", "a", "m", "p", ";">>), "&">>,
             <<(<<"&", "l", "t", ";">>), "<">>,
             <<(<<"&", "g", "t", ";">>), ">">>,
             <<(<<"&", "q", "u", "o", "t", ";">>), "\"">>}

\* html.unescape(s): every character reference of s replaced, in one pass
RECURSIVE UnescapeFrom(_, _)
UnescapeFrom(s, i) ==
    LET at(m) == {e \in Entities : m + Len(e[1]) - 1 <= Len(s)
                                   /\ SubSeq(s, m, m + Len(e[1]) - 1) = e[1]}
        found == {m \in i..Len(s) : at(m) # {}}
    IN IF found = {} THEN Slice(s, i, Len(s))
       ELSE LET m == Min(found)
                e == CHOOSE x \in at(m) : TRUE
            IN Slice(s, i, m - 1) \o <<e[2]>> \o UnescapeFrom(s, m + Len(e[1]))
unescape(s) == UnescapeFrom(s, 1)

(***************************************************************************)
(* Bounds and input sets                                                   *)
(***************************************************************************)
MaxPieces == 3
NumRuns == 2
MaxUrlLen == 3
MaxAnchors == 2
MaxTexts == 2
MaxElements == 2

Pieces == {S_strong, S_hello, S_lazy, <<" ">>, <<"1">>, <<",">>}

\* the texts made of at most n pieces
RECURSIVE PieceTexts(_)
PieceTexts(n) ==
    IF n = 0 THEN {<<>>}
    ELSE LET S == PieceTexts(n - 1) IN S \cup {t \o p : t \in S, p \in Pieces}

UrlChars == {"/", "a", "."}
RECURSIVE UrlStrings(_)
UrlStrings(n) ==
    IF n = 0 THEN {<<>>}
    ELSE LET S == UrlStrings(n - 1) IN S \cup {Append(t, c) : t \in S, c \in UrlChars}

\* the text and tail slots of the modelled pages: blank, a word longer than
\* MinLen, and markup that was entity-escaped in the page
S_b == <<"<", "b", ">">>
TextChoices == {<<" ">>, S_hello, S_b}
U_http == S_http \o S_sep \o <<"a", ".", "b", "c", "/">>
U_ftp == S_ftp \o S_sep \o <<"a", ".", "b", "c", "/">>
HrefChoices == {None, U_http, U_ftp, <<"/", "p">>, <<"#">>}
LinkChoices == {U_http, <<"#">>}
TargetUrls == {S_https \o S_sep \o <<"g", ".", "c", "o", "/", "x">>}

\* the ancestors-or-self of element k under the parent vector p
RECURSIVE Chain(_, _)
Chain(p, k) == IF k = 1 THEN {1} ELSE {k} \cup Chain(p, p[k])

\* the parent vectors of n anchors numbered 2..n+1 in document order
ParentVecs(n) ==
    {p \in [2..(n + 1) -> 1..n] :
        \A i \in 2..(n + 1) : p[i] < i /\ (i > 2 => p[i] \in Chain(p, i - 1))}

\* the parsed page with root tag `tag` and n anchors below it
Page(tag, n, p, hr, tx, tl) ==
    [i \in 1..(n + 1) |->
        LET mine == {j \in 2..(n + 1) : p[j] = i}
        IN [tag |-> IF i = 1 THEN tag ELSE "a",
            href |-> hr[i],
            others |-> <<>>,
            text |-> tx[i],
            tail |-> IF i = 1 THEN None ELSE tl[i],
            kids |-> [k \in 1..Cardinality(mine) |-> Kth(mine, k)],
            parent |-> IF i = 1 THEN 0 ELSE p[i]]]

\* the number of text and tail slots of a parsed page that are filled
filled(h) ==
    Cardinality({i \in 1..Len(h) : h[i].text # None})
      + Cardinality({i \in 1..Len(h) : h[i].tail # None})

\* h is something etree.fromstring can return for a sterile page: a div or
\* an anchor as root, at most MaxAnchors anchors in all, at most MaxTexts
\* text and tail slots filled
IsPage(h, hrefs) ==
    \E tag \in {"div", "a"} :
      \E n \in 0..(IF tag = "div" THEN MaxAnchors ELSE MaxAnchors - 1) :
        \E p \in ParentVecs(n) :
          \E hr \in [1..(n + 1) -> hrefs \cup {None}] :
            \E tx \in [1..(n + 1) -> TextChoices \cup {None}] :
              \E tl \in [2..(n + 1) -> TextChoices \cup {None}] :
                /\ hr[1] \in (IF tag = "div" THEN {None} ELSE hrefs)
                /\ \A i \in 2..(n + 1) : hr[i] \in hrefs
                /\ h = Page(tag, n, p, hr, tx, tl)
                /\ filled(h) <= MaxTexts

RIdle == /\ rin = <<>> /\ rtext = <<>> /\ rwords = {} /\ rpc = "off" /\ rresults = <<>>
SIdle == /\ spage = <<>> /\ sheap = <<>> /\ sresult = None /\ spc = "off"
PIdle ==
    /\ sterile = <<>> /\ target_url = <<>> /\ heap = <<>> /\ alist = <<>> /\ ai = 1
    /\ fixed = <<>> /\ order = <<>> /\ ei = 1 /\ output = None /\ pc = "off"
UIdle == /\ uaddress = <<>> /\ upath = <<>> /\ uresult = None /\ upc = "off"

(***************************************************************************)
(* reinforce_text, one step per iteration of its loop, called NumRuns      *)
(* times on the same argument                                              *)
(***************************************************************************)
ReinforceCall ==
    /\ rpc = "idle"
    /\ Len(rresults) < NumRuns
    /\ rtext' = rin
    /\ rwords' = tokens(rin)
    /\ rpc' = "loop"
    /\ UNCHANGED <<rin, rresults, uvars, pvars, svars>>

ReinforceLoop ==
    /\ rpc = "loop"
    /\ \E word \in rwords :
        /\ rtext' = loop_body(rtext, word)
        /\ rwords' = rwords \ {word}
    /\ UNCHANGED <<rin, rpc, rresults, uvars, pvars, svars>>

ReinforceReturn ==
    /\ rpc = "loop"
    /\ rwords = {}
    /\ rresults' = Append(rresults, normalize(rtext))
    /\ rpc' = "idle"
    /\ UNCHANGED <<rin, rtext, rwords, uvars, pvars, svars>>

InitReinforce ==
    /\ rin \in PieceTexts(MaxPieces)
    /\ rtext = <<>> /\ rwords = {} /\ rpc = "idle" /\ rresults = <<>>
    /\ UIdle /\ PIdle /\ SIdle
NextReinforce == ReinforceCall \/ ReinforceLoop \/ ReinforceReturn
SpecReinforce == InitReinforce /\ [][NextReinforce]_vars

(***************************************************************************)
(* absolutize_url, called once                                             *)
(***************************************************************************)
AbsolutizeCall ==
    /\ upc = "call"
    /\ uresult' = absolutize_url(uaddress, upath)
    /\ upc' = "done"
    /\ UNCHANGED <<uaddress, upath, rvars, pvars, svars>>

InitUrl ==
    /\ uaddress \in UrlStrings(MaxUrlLen)
    /\ upath \in UrlStrings(MaxUrlLen)
    /\ uresult = None /\ upc = "call"
    /\ RIdle /\ PIdle /\ SIdle
NextUrl == AbsolutizeCall
SpecUrl == InitUrl /\ [][NextUrl]_vars

(***************************************************************************)
(* process_page, one step per iteration of each of its two loops           *)
(***************************************************************************)
\* the body of the loop over root.xpath(".//a")
AnchorStep ==
    /\ pc = "anchors"
    /\ ai <= Len(alist)
    /\ LET a_tag == alist[ai]
       IN IF nonblank(heap[a_tag].text)
          THEN LET wrapped == wrap_in_em(heap, a_tag)
               IN IF wrapped[a_tag].href = None
                  THEN \* a_tag.attrib['href'] raises KeyError, which nothing catches
                       heap' = wrapped /\ pc' = "raised" /\ ai' = ai
                  ELSE LET href == fixed_href(target_url, wrapped[a_tag].href)
                       IN IF href = None
                          THEN \* an attribute cannot be set to None: TypeError
                               heap' = wrapped /\ pc' = "raised" /\ ai' = ai
                          ELSE /\ heap' = [wrapped EXCEPT ![a_tag].href = href]
                               /\ pc' = pc /\ ai' = ai + 1
          ELSE heap' = remove(heap, a_tag) /\ pc' = pc /\ ai' = ai + 1
    /\ UNCHANGED <<sterile, target_url, alist, fixed, order, ei, output, rvars, uvars, svars>>

\* the first loop is over; root.iter() starts
AnchorsDone ==
    /\ pc = "anchors"
    /\ ai > Len(alist)
    /\ fixed' = heap
    /\ order' = iter(heap, Root)
    /\ ei' = 1
    /\ pc' = "emphasis"
    /\ UNCHANGED <<sterile, target_url, heap, alist, ai, output, rvars, uvars, svars>>

\* the body of the loop over root.iter()
EmphasisStep ==
    /\ pc = "emphasis"
    /\ ei <= Len(order)
    /\ heap' \in emphasize(heap, order[ei])
    /\ ei' = ei + 1
    /\ UNCHANGED <<sterile, target_url, alist, ai, fixed, order, output, pc, rvars, uvars, svars>>

\* return unescape(etree.tostring(root, method='html').decode())
Serialize ==
    /\ pc = "emphasis"
    /\ ei > Len(order)
    /\ output' = unescape(tostring(heap, Root))
    /\ pc' = "done"
    /\ UNCHANGED <<sterile, target_url, heap, alist, ai, fixed, order, ei, rvars, uvars, svars>>

InitProcess ==
    /\ IsPage(heap, HrefChoices)
    /\ sterile = heap
    /\ target_url \in TargetUrls
    /\ alist = xpath_a(heap)
    /\ ai = 1
    /\ fixed = <<>> /\ order = <<>> /\ ei = 1 /\ output = None
    /\ pc = "anchors"
    /\ RIdle /\ UIdle /\ SIdle
NextProcess == AnchorStep \/ AnchorsDone \/ EmphasisStep \/ Serialize
SpecProcess == InitProcess /\ [][NextProcess]_vars

\* process_page on the pages whose anchors all have an href
InitLinked ==
    /\ IsPage(heap, LinkChoices)
    /\ sterile = heap
    /\ target_url \in TargetUrls
    /\ alist = xpath_a(heap)
    /\ ai = 1
    /\ fixed = <<>> /\ order = <<>> /\ ei = 1 /\ output = None
    /\ pc = "anchors"
    /\ RIdle /\ UIdle /\ SIdle
SpecLinked == InitLinked /\ [][NextProcess]_vars

(***************************************************************************)
(* sterilize_page                                                          *)
(***************************************************************************)
\* the tags of the modelled page sources; the last three hold text only
SourceTags == {"div", "form", "a", "script", "style", "textarea"}
TextOnlyTags == {"script", "style", "textarea"}
SourceTexts == {<<"x">>, <<"y", "\n">>}

\* h is a page source as lxml.html parses it: a div, a form or an anchor
\* as root, at most MaxElements elements below it, at most MaxTexts text
\* and tail slots filled, no anchor directly inside an anchor (the parser
\* closes the first); anchors may carry an href and an onclick, the root a
\* class
IsSource(h) ==
    \E tag \in {"div", "form", "a"} :
      \E n \in 0..MaxElements :
        \E p \in ParentVecs(n) :
          \E tags \in [1..(n + 1) -> SourceTags] :
            \E at \in [1..(n + 1) -> {"none", "href", "more"}] :
              \E tx \in [1..(n + 1) -> SourceTexts \cup {None}] :
                \E tl \in [2..(n + 1) -> SourceTexts \cup {None}] :
                  /\ tags[1] = tag
                  /\ \A i \in 2..(n + 1) : tags[p[i]] \notin TextOnlyTags
                  /\ \A i \in 2..(n + 1) : tags[i] = "a" => tags[p[i]] # "a"
                  /\ \A i \in 1..(n + 1) : tags[i] # "a" => at[i] \in {"none"} \cup (IF i = 1 THEN {"more"} ELSE {})
                  /\ h = [i \in 1..(n + 1) |->
                            LET mine == {j \in 2..(n + 1) : p[j] = i}
                            IN [tag |-> tags[i],
                                href |-> IF tags[i] = "a" /\ at[i] # "none" THEN <<"#">> ELSE None,
                                others |-> IF at[i] # "more" THEN <<>>
                                           ELSE IF tags[i] = "a" THEN <<"onclick">> ELSE <<"class">>,
                                text |-> tx[i],
                                tail |-> IF i = 1 THEN None ELSE tl[i],
                                kids |-> [k \in 1..Cardinality(mine) |-> Kth(mine, k)],
                                parent |-> IF i = 1 THEN 0 ELSE p[i]]]
                  /\ filled(h) <= MaxTexts

\* for character in ['\n', '\r', '\t']: page_source = page_source.replace(character, ' ')
SterilizeReplace ==
    /\ spc = "replace"
    /\ sheap' = [i \in 1..Len(sheap) |->
                    [sheap[i] EXCEPT !.text = replaced(@), !.tail = replaced(@)]]
    /\ spc' = "clean"
    /\ UNCHANGED <<spage, sresult, rvars, uvars, pvars>>

\* cleaner.clean_html(page_source), up to its serialization
SterilizeClean ==
    /\ spc = "clean"
    /\ sheap' = clean_html(sheap)
    /\ spc' = "join"
    /\ UNCHANGED <<spage, sresult, rvars, uvars, pvars>>

\* return ' '.join(<the serialized tree>.split())
SterilizeJoin ==
    /\ spc = "join"
    /\ sresult' = join(split(tostring(sheap, Root)))
    /\ spc' = "done"
    /\ UNCHANGED <<spage, sheap, rvars, uvars, pvars>>

InitSterilize ==
    /\ IsSource(spage)
    /\ sheap = spage
    /\ sresult = None
    /\ spc = "replace"
    /\ RIdle /\ UIdle /\ PIdle
NextSterilize == SterilizeReplace \/ SterilizeClean \/ SterilizeJoin
SpecSterilize == InitSterilize /\ [][NextSterilize]_vars

(***************************************************************************)
(* Claims about reinforce_text                                             *)
(***************************************************************************)
\* the positions where a maximal alphabetic run of text starts
RunStarts(text) ==
    {i \in 1..Len(text) : isalpha(text[i]) /\ (i = 1 \/ ~isalpha(text[i - 1]))}
\* the last position of the maximal alphabetic run that starts at i
RunEnd(text, i) ==
    Min({j \in i..Len(text) : j = Len(text) \/ ~isalpha(text[j + 1])})

\* text with every maximal alphabetic run longer than MinLen that stands
\* between word boundaries wrapped once, everything else copied
RECURSIVE WrapFrom(_, _)
WrapFrom(text, i) ==
    LET long == {m \in RunStarts(text) :
                    /\ m >= i
                    /\ RunEnd(text, m) - m + 1 > MinLen
                    /\ boundary(text, m) /\ boundary(text, RunEnd(text, m) + 1)}
    IN IF long = {} THEN Slice(text, i, Len(text))
       ELSE LET m == Min(long)
                j == RunEnd(text, m)
            IN Slice(text, i, m - 1) \o S_open \o SubSeq(text, m, j) \o S_close
                 \o WrapFrom(text, j + 1)
Wrapped(text) == normalize(WrapFrom(text, 1))

\* C1: every value reinforce_text returns is its argument with every
\* alphabetic token longer than 4 wrapped in <strong> exactly once at each of
\* its whole-word positions and nowhere else (not inside markup inserted for
\* another token), shorter tokens left alone.
C1_WrapsExactlyWholeWords ==
    \A k \in 1..Len(rresults) : rresults[k] = Wrapped(rin)

\* C6: reinforce_text returns the same string whatever the order in which
\* the set of tokens is iterated: two runs on the same text agree.
C6_RunsAgree ==
    \A j, k \in 1..Len(rresults) : rresults[j] = rresults[k]

(***************************************************************************)
(* Claims about absolutize_url                                             *)
(***************************************************************************)
DropTrailingSlash(s) == IF endswith(s, "/") THEN SubSeq(s, 1, Len(s) - 1) ELSE s
DropLeadingSlash(s) == IF startswith(s, "/") THEN Tail(s) ELSE s

\* C5: when the address ends with '/' or the path starts with '/',
\* absolutize_url returns the address followed by the path with exactly one
\* slash between them: the plain concatenation when one of the two slashes
\* is there, the concatenation without the path's leading slash when both are.
C5_OneSeparatingSlash ==
    (upc = "done" /\ (endswith(uaddress, "/") \/ startswith(upath, "/"))) =>
        /\ uresult # None
        /\ uresult = DropTrailingSlash(uaddress) \o <<"/">> \o DropLeadingSlash(upath)
        /\ (endswith(uaddress, "/") /\ startswith(upath, "/")) => uresult = uaddress \o Tail(upath)
        /\ ~(endswith(uaddress, "/") /\ startswith(upath, "/")) => uresult = uaddress \o upath

C5_Witness ==
    /\ upc = "done"
    /\ endswith(uaddress, "/") /\ startswith(upath, "/")
    /\ Len(uaddress) > 1 /\ Len(upath) > 1
    /\ uresult = uaddress \o Tail(upath)

(***************************************************************************)
(* Claims about process_page                                               *)
(***************************************************************************)
\* the elements of the tree under the root
InTree(h) == {iter(h, Root)[k] : k \in 1..Len(iter(h, Root))}

\* the anchors of the page as it was parsed
Anchors0 == {n \in 1..Len(sterile) : sterile[n].tag = "a"}

\* the anchors process_page was given with text that is not blank and an href
Linked0 == {n \in Anchors0 : nonblank(sterile[n].text) /\ sterile[n].href # None}

\* an absolute URL with scheme http or https and a non-empty host
StrictHttp(href) ==
    urlparse(href).scheme \in FormSchemes /\ urlparse(href).netloc # <<>>

AnchorsOver == pc \in {"emphasis", "done"}

\* C2: the href of every anchor whose text is not blank is, after
\* processing, its original href if and only if that is an absolute http or
\* https URL with a host, and absolutize_url(schemeful_domain(target_url),
\* href) for every other href.
C2_HrefKeptIffStrictHttp ==
    AnchorsOver =>
        \A n \in Linked0 :
            /\ (heap[n].href = sterile[n].href) <=> StrictHttp(sterile[n].href)
            /\ ~StrictHttp(sterile[n].href) =>
                 heap[n].href = absolutize_url(schemeful_domain(target_url), sterile[n].href)

\* the text stream inside element n: its text, then each child's stream
\* followed by that child's tail
str(x) == IF x = None THEN <<>> ELSE x
RECURSIVE inner(_, _)
inner(h, n) ==
    str(h[n].text)
      \o Concat([k \in 1..Len(h[n].kids) |->
                    inner(h, h[n].kids[k]) \o str(h[h[n].kids[k]].tail)])

\* the loop is about to delete the anchor a_tag, which is in the tree
Deleting(a_tag) ==
    /\ pc = "anchors" /\ ai <= Len(alist) /\ a_tag = alist[ai]
    /\ ~nonblank(heap[a_tag].text)
    /\ a_tag \in InTree(heap)

\* C3: deleting an anchor whose text is blank keeps its tail: the text
\* stream of the tree after the deletion is the stream before it without
\* what was inside the anchor, the text that followed the anchor still in
\* its place.
C3_TailKeptOnDelete ==
    [][\A a_tag \in 1..Len(heap) :
          Deleting(a_tag) =>
             inner(heap', Root)
               = inner([heap EXCEPT ![a_tag].text = None, ![a_tag].kids = <<>>], Root)]_vars

\* C7: when the anchor loop is over, every anchor in the tree, the root
\* included, has no text of its own and an em as first child that holds the
\* text the anchor had, followed by the children it had that are still there.
C7_EveryAnchorWrapped ==
    (pc = "emphasis" /\ ei = 1) =>
        \A n \in InTree(heap) :
            heap[n].tag = "a" =>
                /\ heap[n].text = None
                /\ Len(heap[n].kids) >= 1
                /\ heap[heap[n].kids[1]].tag = "em"
                /\ heap[heap[n].kids[1]].text = sterile[n].text
                /\ Tail(heap[n].kids)
                     = SelectSeq(sterile[n].kids, LAMBDA k : heap[k].parent = n)

\* slot `now` is what one call of reinforce_text makes of slot `was` when
\* that is not blank, and `was` itself when it is
Once(was, now) == IF nonblank(was) THEN now \in reinforce_text(was) ELSE now = was

\* C8: the emphasis loop runs after the anchor loop and handles every text
\* and tail slot of the tree once: the elements it has passed hold
\* reinforce_text, applied once, of what the anchor loop left there, the
\* others still hold what the anchor loop left; at the end that is every
\* element of the tree, the em elements and the anchors' tails included.
C8_EachSlotReinforcedOnce ==
    (pc \in {"emphasis", "done"}) =>
        /\ ai > Len(alist)
        /\ order = iter(heap, Root)
        /\ \A j, k \in 1..Len(order) : order[j] = order[k] => j = k
        /\ pc = "done" => ei > Len(order)
        /\ \A k \in 1..Len(order) :
              LET n == order[k]
              IN IF k < ei
                 THEN Once(fixed[n].text, heap[n].text) /\ Once(fixed[n].tail, heap[n].tail)
                 ELSE heap[n].text = fixed[n].text /\ heap[n].tail = fixed[n].tail

C8_Witness ==
    /\ pc = "done"
    /\ \E a \in InTree(heap), em \in InTree(heap) :
          /\ heap[a].tag = "a" /\ heap[em].tag = "em" /\ heap[em].parent = a
          /\ fixed[em].text = S_hello
          /\ heap[em].text = S_open \o S_hello \o S_close \o <<" ">>
          /\ fixed[a].tail = S_hello
          /\ heap[a].tail = S_open \o S_hello \o S_close \o <<" ">>

\* C9: process_page returns for every sterile tree: no anchor, with or
\* without an href, makes the href step raise.
C9_NeverRaises == pc # "raised"

\* the names of the tags that open or close in a string of markup
TagNames(out) ==
    LET opens == {i \in 1..(Len(out) - 1) :
                     /\ out[i] = "<"
                     /\ \/ isalpha(out[i + 1])
                        \/ out[i + 1] = "/" /\ i + 2 <= Len(out) /\ isalpha(out[i + 2])}
        first(i) == IF out[i + 1] = "/" THEN i + 2 ELSE i + 1
    IN {SubSeq(out, first(i), RunEnd(out, first(i))) : i \in opens}

\* C10: the returned markup has no element other than the container, the
\* anchors, em and strong: un-escaping only brings back the tags the
\* pipeline inserted, not markup that was escaped text in the page.
C10_OnlyPipelineTags ==
    pc = "done" =>
        TagNames(output) \subseteq {<<"d", "i", "v">>, <<"a">>, <<"e", "m">>, S_strong}

(***************************************************************************)
(* Claims about sterilize_page                                             *)
(***************************************************************************)
\* the text stream inside element n of the page source without the text of
\* the script and style elements, everything else in its place
RECURSIVE kept_text(_, _)
kept_text(h, n) ==
    (IF h[n].tag \in {"script", "style"} THEN <<>> ELSE str(h[n].text))
      \o Concat([k \in 1..Len(h[n].kids) |->
                    kept_text(h, h[n].kids[k]) \o str(h[h[n].kids[k]].tail)])

\* C4: the result of sterilize_page has no element but one container and
\* anchors, its anchors have no attribute but href, and its text is the text
\* of the page source in the same order without the text of the script and
\* style elements: no other element loses its text.
C4_OnlyScriptAndStyleLoseText ==
    spc = "done" =>
        /\ TagNames(sresult) \subseteq {<<"d", "i", "v">>, <<"a">>}
        /\ \A n \in InTree(sheap) :
              /\ sheap[n].tag \in {"div", "a"}
              /\ sheap[n].tag = "div" => n = Root
              /\ sheap[n].others = <<>>
        /\ split(inner(sheap, Root)) = split(replaced(kept_text(spage, Root)))

====
